---- MODULE Spec2Model ----
(***************************************************************************)
(* Model of the Arduino board connection lifecycle (ArduinoBoard), the     *)
(* board registry (ArduinoConnector) and the block layer's board reference *)
(* (ArduinoBlocks) of xcx-arduino.                                         *)
(*                                                                         *)
(* JavaScript runs one task at a time; a promise continuation (.then,      *)
(* .catch, .finally) runs as a microtask right after the task that settled *)
(* the promise, before any other event or timer.  An action of this model  *)
(* is therefore one task together with the continuations it triggers.      *)
(*                                                                         *)
(* The protocol client (firmata-io) and the serial transport are external. *)
(* Their signals are modelled in the order the transport can produce them: *)
(* "open" once the port has opened, "ready" after "open", "close" and      *)
(* "disconnect" on an open port, "error" on a port that is not closed.     *)
(***************************************************************************)
EXTENDS Integers, Sequences, FiniteSets, TLC

(* ------------------------------ bounds --------------------------------- *)

\* Protocol clients (new Firmata) that can be constructed in one behaviour.
MaxFirmata == 2

\* Board objects (new ArduinoBoard) that can be constructed in one behaviour.
MaxBoards == 2

\* connectSerial() calls that can be pending at the same time.
MaxCalls == 2

\* Pin reads whose listener or timer is alive at the same time.
MaxReads == 2

\* Pin writes whose pacing timer is alive at the same time.
MaxWrites == 1

\* The history counts what happened to a board up to this number.
MaxSeen == 2

\* Calls of the pin operations in one run.
MaxPinCalls == 3

\* The clock stops here (milliseconds).
MaxTime == 130

\* Samples the device reports are 0..MaxSample.
MaxSample == 1

(* ------------------------- program constants --------------------------- *)

digitalReadInterval == 20

analogReadInterval == 20

sendingInterval == 10

updateDigitalInputWaitingTime == 100

updateAnalogInputWaitingTime == 100

(* ------------------------------ domains -------------------------------- *)

Boards == 1..MaxBoards

ExtIds == {"extA", "extB"}

Firmatas == 1..MaxFirmata

CallIds == 1..MaxCalls

ReadIds == 1..MaxReads

WriteIds == 1..MaxWrites

Samples == 0..MaxSample

\* The pin of the model: pin 14 of the board, which is also analog pin A0.
Pins == {14}

\* firmata.analogPins: analog pin number (from 0) -> pin number
AnalogPins == << 14 >>

\* no value: a promise that resolved with undefined, or did not resolve
NoValue == -1

\* this.firmata = null
NoFirmata == 0

\* this.extensionId = null
NULL == "null"

\* this.portInfo = null
NoPort == [usbVendorId |-> NULL, usbProductId |-> NULL]

\* no board: findBoard() returning undefined, this.board = null
NoBoard == 0

\* {usbVendorId, usbProductId} pairs a filter can name.
Descriptors ==
    { [usbVendorId |-> "04D8", usbProductId |-> "E83A"],
      [usbVendorId |-> "04D8", usbProductId |-> "000A"],
      [usbVendorId |-> "04D9", usbProductId |-> "E83A"] }

States == {"disconnect", "portRequesting", "connect", "ready"}

Signals == {"open", "ready", "close", "disconnect", "error"}

(* ------------------------------- state --------------------------------- *)

VARIABLES
    made,          \* boards constructed so far (new ArduinoBoard)
    state,         \* ArduinoBoard.state
    firmata,       \* ArduinoBoard.firmata
    extensionId,   \* ArduinoBoard.extensionId
    portInfo,      \* ArduinoBoard.portInfo
    relListener,   \* board has a once(RELEASED) listener of the connector
    fBoard,        \* protocol client -> the board whose closures hold it
    fTransport,    \* protocol client -> "none" | "opening" | "open" | "closed"
    fReady,        \* protocol client has completed its handshake
    fListeners,    \* protocol client -> lifecycle signals with a once-listener
    calls,         \* pending connectSerial() calls
    boards,        \* ArduinoConnector.boards
    blocks,        \* ArduinoBlocks instances: constructed, this.board
    now,           \* Date.now()
    pins,          \* protocol client -> firmata.pins
    reads,         \* updateDigitalInput/updateAnalogInput calls: listener, timer
    writes,        \* pacing timers of the write operations
    pinCalls,      \* calls of the pin operations made so far
    seen,          \* history: per board, times added to and removed from the
                   \* registry, PERIPHERAL_DISCONNECTED the runtime received
    last           \* the last operation: what was called, what it emitted

vars ==
    << made, state, firmata, extensionId, portInfo, relListener, fBoard,
       fTransport, fReady, fListeners, calls, boards, blocks, now, pins, reads,
       writes, pinCalls, seen, last >>

FreeCall == [pc |-> "free", b |-> NoBoard, f |-> NoFirmata, conn |-> FALSE, scan |-> NULL]

\* A pin as the protocol client reports it after the handshake; updateTime,
\* updating and inputBias are the fields this program adds (0, FALSE and
\* "undef" stand for undefined).
FreshPin ==
    [mode |-> "undef", value |-> 0, updateTime |-> 0, updating |-> FALSE,
     inputBias |-> "undef", reportD |-> FALSE, reportA |-> FALSE]

FreeRead ==
    [st |-> "free", b |-> NoBoard, f |-> NoFirmata, pin |-> 0, kind |-> NULL,
     at |-> 0, due |-> 0, listening |-> FALSE, timer |-> FALSE,
     during |-> NoValue]

FreeWrite == [st |-> "free", op |-> NULL, at |-> 0, due |-> 0]

Range(s) == { s[i] : i \in 1..Len(s) }

\* The world the handlers transform: the variables, plus the events emitted
\* (ev) and the protocol commands issued (cmds) by the running operation.
World ==
    [ made |-> made, state |-> state, firmata |-> firmata,
      extensionId |-> extensionId, portInfo |-> portInfo,
      relListener |-> relListener, fBoard |-> fBoard,
      fTransport |-> fTransport, fReady |-> fReady,
      fListeners |-> fListeners, calls |-> calls, boards |-> boards,
      blocks |-> blocks, now |-> now, pins |-> pins, reads |-> reads,
      writes |-> writes, pinCalls |-> pinCalls, ev |-> << >>, cmds |-> << >>, done |-> << >> ]

Event(name, b, ext) == [ev |-> name, b |-> b, ext |-> ext]

Emit(W, e) == [W EXCEPT !.ev = Append(@, e)]

Cmd(W, name, f) == [W EXCEPT !.cmds = Append(@, [c |-> name, f |-> f])]

\* A promise returned to a caller settles.
Settle(W, kind, out, v, why, during, at) ==
    [W EXCEPT !.done = Append(@, [k |-> kind, out |-> out, v |-> v, why |-> why,
                                  during |-> during, at |-> at])]

(* ----------------------- ArduinoBoard: queries ------------------------- *)

IsConnected(W, b) == W.state[b] = "connect" \/ W.state[b] = "ready"

IsReady(W, b) == W.state[b] = "ready"

(* ------------------------- ArduinoConnector ---------------------------- *)

\* findBoard() called without options.
NoOptions == [hasFilters |-> FALSE, filters |-> {}]

MinOf(S) == CHOOSE x \in S : \A y \in S : x <= y

\* options.filters.some(filter => ...) for the board's portInfo
FilterMatches(W, b, filters) ==
    \E flt \in filters :
        /\ flt.usbVendorId = W.portInfo[b].usbVendorId
        /\ flt.usbProductId = W.portInfo[b].usbProductId

\* findBoard without the isConnected() test.
FindBoardAnyState(W, options) ==
    IF Len(W.boards) = 0 THEN NoBoard
    ELSE IF ~options.hasFilters THEN W.boards[1]
    ELSE LET hits == { i \in 1..Len(W.boards) :
                         /\ W.portInfo[W.boards[i]] # NoPort
                         /\ FilterMatches(W, W.boards[i], options.filters) }
         IN  IF hits = {} THEN NoBoard ELSE W.boards[MinOf(hits)]

FindBoard(W, options) ==
    IF Len(W.boards) = 0 THEN NoBoard
    ELSE IF ~options.hasFilters THEN W.boards[1]
    ELSE LET hits == { i \in 1..Len(W.boards) :
                         /\ IsConnected(W, W.boards[i])
                         /\ FilterMatches(W, W.boards[i], options.filters) }
         IN  IF hits = {} THEN NoBoard ELSE W.boards[MinOf(hits)]

\* ArduinoBlocks.updateBoard of one instance
UpdateBoard(W, p) ==
    IF W.blocks[p].board # NoBoard /\ IsConnected(W, W.blocks[p].board)
    THEN W
    ELSE [W EXCEPT !.blocks[p].board = FindBoard(W, NoOptions)]

\* The listeners the ArduinoBlocks constructor adds to the connector: every
\* constructed instance runs updateBoard on BOARD_ADDED and on BOARD_REMOVED.
NotifyBlocks(W, name) ==
    IF name \in {"BOARD_ADDED", "BOARD_REMOVED"}
    THEN [W EXCEPT !.blocks =
             [p \in ExtIds |->
                 IF W.blocks[p].made THEN UpdateBoard(W, p).blocks[p]
                 ELSE W.blocks[p]]]
    ELSE W

\* The event name addBoard emits.
AddedEventName == "BOARD_ADDED"

\* The event name removeBoard emits.
RemovedEventName == "BOARD_ADDED"

AddBoard(W, b) ==
    LET W1 == [W EXCEPT !.boards = Append(@, b)]
    IN  NotifyBlocks(Emit(W1, Event(AddedEventName, b, NULL)), AddedEventName)

IndexOf(s, b) ==
    IF b \in Range(s) THEN MinOf({ i \in 1..Len(s) : s[i] = b }) ELSE 0

\* splice(i, 1)
RemoveAt(s, i) == SubSeq(s, 1, i - 1) \o SubSeq(s, i + 1, Len(s))

RemoveBoard(W, b) ==
    LET i == IndexOf(W.boards, b)
    IN  IF i = 0 THEN W
        ELSE LET W1 == [W EXCEPT !.boards = RemoveAt(@, i)]
             IN  NotifyBlocks(Emit(W1, Event(RemovedEventName, b, NULL)),
                              RemovedEventName)

\* The RELEASED listener without removeBoard: the runtime is told, the board
\* stays in the registry.
OnReleasedNoRemove(W, b) ==
    Emit(W, Event("PERIPHERAL_DISCONNECTED", b, NULL))

\* The once(RELEASED) listener connectSerial registers on a connected board.
OnReleased(W, b) ==
    Emit(RemoveBoard(W, b), Event("PERIPHERAL_DISCONNECTED", b, NULL))

(* --------------------- ArduinoBoard: lifecycle ------------------------- *)

SetupFirmata(W, b, f) ==
    [W EXCEPT !.fListeners[f] = @ \cup {"open", "close", "disconnect", "error"},
              !.firmata[b] = f]

OnBoarReady(W, b) ==
    [Cmd(W, "i2cConfig", W.firmata[b]) EXCEPT !.state[b] = "ready"]

\* emit(RELEASED) with the connector's listener registered when the board is
\* created, not when its connect has resolved.
EmitReleasedEager(W, b) ==
    OnReleased([Emit(W, Event("RELEASED", b, NULL)) EXCEPT !.relListener[b] = FALSE], b)

\* emit(RELEASED) with the connector's listener added by on(), not once():
\* it runs and stays.
EmitReleasedOn(W, b) ==
    LET W1 == Emit(W, Event("RELEASED", b, NULL))
    IN  IF W1.relListener[b] THEN OnReleased(W1, b) ELSE W1

\* emit(RELEASED): every once-listener runs and is removed.
EmitReleased(W, b) ==
    LET W1 == Emit(W, Event("RELEASED", b, NULL))
    IN  IF W1.relListener[b]
        THEN OnReleased([W1 EXCEPT !.relListener[b] = FALSE], b)
        ELSE W1

\* The transport is closed when firmata.transport && firmata.isOpen.
CloseTransport(W, f) ==
    IF W.fTransport[f] = "open"
    THEN [Cmd(W, "close", f) EXCEPT !.fTransport[f] = "closed"]
    ELSE W

\* A read's record is dropped once its listener and its timer are gone.
Sweep(rs) ==
    [r \in ReadIds |-> IF ~rs[r].listening /\ ~rs[r].timer THEN FreeRead ELSE rs[r]]

\* A release that also clears the timers of the reads of protocol client f:
\* a read in flight is dropped and never settles.
RemoveAllListenersAndTimers(W, f) ==
    [W EXCEPT !.fListeners[f] = {},
              !.reads = Sweep([r \in ReadIds |->
                                  IF W.reads[r].f = f
                                  THEN [W.reads[r] EXCEPT !.listening = FALSE,
                                                          !.timer = FALSE]
                                  ELSE W.reads[r]])]

\* firmata.removeAllListeners(): the lifecycle listeners and the pin sample
\* listeners of protocol client f.
RemoveAllListeners(W, f) ==
    [W EXCEPT !.fListeners[f] = {},
              !.reads = Sweep([r \in ReadIds |->
                                  IF W.reads[r].f = f
                                  THEN [W.reads[r] EXCEPT !.listening = FALSE]
                                  ELSE W.reads[r]])]

\* releaseBoard as an idempotent cleanup: nothing is done and nothing is
\* emitted on a board whose state is already 'disconnect'.
ReleaseBoardOnce(W, b) ==
    IF W.state[b] = "disconnect" THEN W
    ELSE LET f  == W.firmata[b]
             W1 == [W EXCEPT !.state[b] = "disconnect"]
             W2 == IF f # NoFirmata
                   THEN [RemoveAllListeners(CloseTransport(W1, f), f)
                            EXCEPT !.firmata[b] = NoFirmata]
                   ELSE W1
         IN  EmitReleased([W2 EXCEPT !.extensionId[b] = NULL], b)

ReleaseBoard(W, b) ==
    LET f  == W.firmata[b]
        W1 == [W EXCEPT !.state[b] = "disconnect"]
        W2 == IF f # NoFirmata
              THEN [RemoveAllListeners(CloseTransport(W1, f), f)
                       EXCEPT !.firmata[b] = NoFirmata]
              ELSE W1
    IN  EmitReleased([W2 EXCEPT !.extensionId[b] = NULL], b)

\* disconnect without its first line: the board is released whatever its state.
DisconnectAlways(W, b) ==
    ReleaseBoard(IF W.firmata[b] # NoFirmata
                 THEN Cmd(W, "reset", W.firmata[b])
                 ELSE W, b)

Disconnect(W, b) ==
    IF W.state[b] = "disconnect" THEN W
    ELSE ReleaseBoard(IF W.firmata[b] # NoFirmata
                      THEN Cmd(W, "reset", W.firmata[b])
                      ELSE W, b)

HandleDisconnectError(W, b) ==
    IF W.state[b] = "disconnect" THEN W
    ELSE Disconnect(
             Emit(W, Event("PERIPHERAL_CONNECTION_LOST_ERROR", b, W.extensionId[b])),
             b)

\* The continuations of a connectSerial() promise that resolved: the
\* connector's .then (addBoard, once(RELEASED)) and connectBoard's .then.
ConnectResolved(W, c) ==
    LET b  == W.calls[c].b
        W1 == IF W.calls[c].conn
              THEN [AddBoard(W, b) EXCEPT !.relListener[b] = TRUE]
              ELSE W
        W2 == IF W.calls[c].scan # NULL
              THEN Emit(W1, Event("PERIPHERAL_CONNECTED", b, W.calls[c].scan))
              ELSE W1
    IN  [W2 EXCEPT !.calls[c] = FreeCall]

\* The call whose once('ready') listener is registered on f.
ReadyCall(W, f) ==
    CHOOSE c \in CallIds : W.calls[c].pc = "waitReady" /\ W.calls[c].f = f

\* The listeners with 'close' handled like 'disconnect' and 'error': the host
\* is told that the connection was lost.
OnSignalCloseLost(W, f, sig) ==
    LET b == W.fBoard[f]
    IN  IF W.firmata[b] # f THEN W
        ELSE CASE sig = "open" -> [W EXCEPT !.state[b] = "connect"]
               [] sig \in {"close", "disconnect", "error"} ->
                    IF W.state[b] = "disconnect" THEN W
                    ELSE HandleDisconnectError(W, b)
               [] sig = "ready" ->
                    ConnectResolved(OnBoarReady(W, b), ReadyCall(W, f))

\* The listeners without their first line, if (this.firmata !== firmata) return.
OnSignalUnguarded(W, f, sig) ==
    LET b == W.fBoard[f]
    IN  CASE sig = "open" -> [W EXCEPT !.state[b] = "connect"]
          [] sig = "close" ->
               IF W.state[b] = "disconnect" THEN W ELSE ReleaseBoard(W, b)
          [] sig \in {"disconnect", "error"} ->
               IF W.state[b] = "disconnect" THEN W
               ELSE HandleDisconnectError(W, b)
          [] sig = "ready" ->
               ConnectResolved(OnBoarReady(W, b), ReadyCall(W, f))

\* The once-listeners of setupFirmata and connectSerial, for a signal of f.
OnSignal(W, f, sig) ==
    LET b == W.fBoard[f]
    IN  IF W.firmata[b] # f THEN W
        ELSE CASE sig = "open" -> [W EXCEPT !.state[b] = "connect"]
               [] sig = "close" ->
                    IF W.state[b] = "disconnect" THEN W ELSE ReleaseBoard(W, b)
               [] sig \in {"disconnect", "error"} ->
                    IF W.state[b] = "disconnect" THEN W
                    ELSE HandleDisconnectError(W, b)
               [] sig = "ready" ->
                    ConnectResolved(OnBoarReady(W, b), ReadyCall(W, f))

(* ----------------------- bookkeeping of a step ------------------------- *)

\* What `last` records of board b as it was before the operation.
Pre(b) ==
    IF b = NoBoard
    THEN [state |-> NULL, firmata |-> NoFirmata, extensionId |-> NULL, inReg |-> FALSE]
    ELSE [state |-> state[b], firmata |-> firmata[b],
          extensionId |-> extensionId[b], inReg |-> b \in Range(boards)]

Op(name, b, f, sig, ext, res) ==
    [op |-> name, b |-> b, f |-> f, sig |-> sig, ext |-> ext, res |-> res,
     opt |-> NoOptions, pin |-> 0, pre |-> Pre(b)]

\* How often b occurs in the registry s.
Occurs(s, b) == Cardinality({ i \in 1..Len(s) : s[i] = b })

Capped(n) == IF n > MaxSeen THEN MaxSeen ELSE n

\* The history after an operation that returned world W.
Tally(W) ==
    [b \in Boards |->
        LET more == Occurs(W.boards, b) - Occurs(boards, b)
            told == Len(SelectSeq(W.ev, LAMBDA e :
                            e.ev = "PERIPHERAL_DISCONNECTED" /\ e.b = b))
        IN  [added |-> Capped(seen[b].added + IF more > 0 THEN more ELSE 0),
             removed |-> Capped(seen[b].removed + IF more < 0 THEN -more ELSE 0),
             disconnected |-> Capped(seen[b].disconnected + told)]]

\* The step's effect: the world the operation returned, and its record.
Commit(W, o) ==
    /\ made' = W.made
    /\ state' = W.state
    /\ firmata' = W.firmata
    /\ extensionId' = W.extensionId
    /\ portInfo' = W.portInfo
    /\ relListener' = W.relListener
    /\ fBoard' = W.fBoard
    /\ fTransport' = W.fTransport
    /\ fReady' = W.fReady
    /\ fListeners' = W.fListeners
    /\ calls' = W.calls
    /\ boards' = W.boards
    /\ blocks' = W.blocks
    /\ now' = W.now
    /\ pins' = W.pins
    /\ reads' = W.reads
    /\ writes' = W.writes
    /\ pinCalls' = W.pinCalls
    /\ seen' = Tally(W)
    /\ last' = [op |-> o.op, b |-> o.b, f |-> o.f, sig |-> o.sig, ext |-> o.ext,
                res |-> o.res, opt |-> o.opt, pin |-> o.pin, pre |-> o.pre,
                ev |-> W.ev, cmds |-> W.cmds, done |-> W.done]

Init ==
    /\ made = {}
    /\ state = [b \in Boards |-> "disconnect"]
    /\ firmata = [b \in Boards |-> NoFirmata]
    /\ extensionId = [b \in Boards |-> NULL]
    /\ portInfo = [b \in Boards |-> NoPort]
    /\ relListener = [b \in Boards |-> FALSE]
    /\ fBoard = [f \in Firmatas |-> NoBoard]
    /\ fTransport = [f \in Firmatas |-> "none"]
    /\ fReady = [f \in Firmatas |-> FALSE]
    /\ fListeners = [f \in Firmatas |-> {}]
    /\ calls = [c \in CallIds |-> FreeCall]
    /\ boards = << >>
    /\ blocks = [p \in ExtIds |-> [made |-> FALSE, board |-> NoBoard]]
    /\ now = sendingInterval
    /\ pins = [f \in Firmatas |-> [pin \in Pins |-> FreshPin]]
    /\ reads = [r \in ReadIds |-> FreeRead]
    /\ writes = [w \in WriteIds |-> FreeWrite]
    /\ pinCalls = 0
    /\ seen = [b \in Boards |-> [added |-> 0, removed |-> 0, disconnected |-> 0]]
    /\ last = [op |-> "init", b |-> NoBoard, f |-> NoFirmata, sig |-> NULL,
               ext |-> NULL, res |-> NULL, opt |-> NoOptions, pin |-> 0,
               pre |-> Pre(NoBoard), ev |-> << >>, cmds |-> << >>,
               done |-> << >>]

(* ------------------------------ actions -------------------------------- *)

FreeCalls(W) == { c \in CallIds : W.calls[c].pc = "free" }

\* connectSerial without its first line: the port is requested even when
\* this.firmata is set.
ConnectSerialAlways(W, b, conn, scan) ==
    IF FreeCalls(W) = {} THEN [W EXCEPT !.state[b] = "portRequesting"]
    ELSE [W EXCEPT !.state[b] = "portRequesting",
                   !.calls[MinOf(FreeCalls(W))] =
                       [pc |-> "requesting", b |-> b, f |-> NoFirmata,
                        conn |-> conn, scan |-> scan]]

\* ArduinoBoard.connectSerial up to the pending openSerialPort(); the
\* promise it returns when this.firmata is already set resolves at once.
ConnectSerial(W, b, conn, scan) ==
    IF W.firmata[b] # NoFirmata THEN W
    ELSE [W EXCEPT !.state[b] = "portRequesting",
                   !.calls[MinOf(FreeCalls(W))] =
                       [pc |-> "requesting", b |-> b, f |-> NoFirmata,
                        conn |-> conn, scan |-> scan]]

\* ArduinoConnector.connectSerial: a new board, owned by extensionId.
ConnectorConnectSerial(W, ext, scan) ==
    LET b  == MinOf(Boards \ W.made)
        W1 == [W EXCEPT !.made = @ \cup {b}, !.extensionId[b] = ext]
    IN  ConnectSerial(W1, b, TRUE, scan)

\* connectedBoard without the shared board: every call opens a board.
ConnectedBoardUnshared(W, ext, scan) ==
    IF Boards \ W.made # {} /\ FreeCalls(W) # {}
    THEN ConnectorConnectSerial(W, ext, scan)
    ELSE W

\* ArduinoConnector.connectedBoard, with connectBoard's .then when the call
\* comes from scan().
ConnectedBoard(W, ext, scan) ==
    LET found == FindBoard(W, NoOptions)
    IN  IF found # NoBoard
        THEN IF scan # NULL
             THEN Emit(W, Event("PERIPHERAL_CONNECTED", found, scan))
             ELSE W
        ELSE ConnectorConnectSerial(W, ext, scan)

\* Extension ids are only stored and passed on, never compared: the callers
\* are named so that the k-th board is opened for the k-th of the two ids.
Opener(b) == IF b % 2 = 1 THEN "extA" ELSE "extB"

CanConnectedBoard(W, ext) ==
    \/ FindBoard(W, NoOptions) # NoBoard
    \/ /\ Boards \ W.made # {}
       /\ FreeCalls(W) # {}
       /\ ext = Opener(MinOf(Boards \ W.made))

\* acquire(ownerId): connectedBoard(extensionId) called on the connector.
Acquire(ext) ==
    /\ CanConnectedBoard(World, ext)
    /\ Commit(ConnectedBoard(World, ext, NULL),
              Op("acquire", NoBoard, NoFirmata, NULL, ext,
                 FindBoard(World, NoOptions)))

\* new ArduinoBlocks(runtime)
Construct(p) ==
    /\ ~blocks[p].made
    /\ Commit([World EXCEPT !.blocks[p].made = TRUE],
              Op("construct", NoBoard, NoFirmata, NULL, p, NULL))

\* ArduinoBlocks.scan -> connectBoard
Scan(p) ==
    /\ blocks[p].made
    /\ IF blocks[p].board # NoBoard /\ IsConnected(World, blocks[p].board)
       THEN Commit(World, Op("scan", NoBoard, NoFirmata, NULL, p, "already"))
       ELSE /\ CanConnectedBoard(World, p)
            /\ Commit(ConnectedBoard(World, p, p),
                      Op("scan", NoBoard, NoFirmata, NULL, p,
                         FindBoard(World, NoOptions)))

\* connectSerial(options) called on an existing board.
Connect(b) ==
    /\ b \in made
    /\ firmata[b] # NoFirmata \/ FreeCalls(World) # {}
    /\ Commit(ConnectSerial(World, b, FALSE, NULL),
              Op("connect", b, NoFirmata, NULL, NULL,
                 IF firmata[b] # NoFirmata THEN "resolved" ELSE "pending"))

\* The port of the board on the desk, which requestPort() offers the user.
PluggedPort == [usbVendorId |-> "04D8", usbProductId |-> "E83A"]

\* openSerialPort() resolves: the user picked the port, its descriptor is d.
PortResolved(c, d) ==
    /\ calls[c].pc = "requesting"
    /\ \E f \in Firmatas :
        /\ fBoard[f] = NoBoard
        /\ \A g \in Firmatas : fBoard[g] = NoBoard => f <= g
        /\ LET b  == calls[c].b
               W1 == [World EXCEPT !.portInfo[b] = d,
                                   !.fBoard[f] = b,
                                   !.fTransport[f] = "opening"]
               W2 == SetupFirmata(W1, b, f)
               W3 == [W2 EXCEPT !.fListeners[f] = @ \cup {"ready"},
                                !.calls[c].pc = "waitReady",
                                !.calls[c].f = f]
           IN  Commit(W3, Op("portResolved", b, f, NULL, NULL, NULL))

\* openSerialPort() rejects (port denied, open failed): connectSerial's
\* .catch releases the board and rejects.
PortRejected(c) ==
    /\ calls[c].pc = "requesting"
    /\ LET b  == calls[c].b
           W1 == ReleaseBoard(World, b)
       IN  Commit([W1 EXCEPT !.calls[c] = FreeCall],
                  Op("portRejected", b, NoFirmata, NULL, NULL, "rejected"))

\* The transport's part of a signal of protocol client f.
CanSignal(f, sig) ==
    CASE sig = "open" -> fTransport[f] = "opening"
      [] sig = "ready" -> fTransport[f] = "open" /\ ~fReady[f]
      [] sig = "close" -> fTransport[f] = "open"
      [] sig = "disconnect" -> fTransport[f] = "open"
      [] sig = "error" -> fTransport[f] \in {"opening", "open"}

AfterSignal(W, f, sig) ==
    CASE sig = "open" -> [W EXCEPT !.fTransport[f] = "open"]
      [] sig = "ready" -> [W EXCEPT !.fReady[f] = TRUE]
      [] sig = "close" -> [W EXCEPT !.fTransport[f] = "closed"]
      [] sig = "disconnect" -> [W EXCEPT !.fTransport[f] = "closed"]
      [] sig = "error" ->
           [W EXCEPT !.fTransport[f] = IF @ = "opening" THEN "closed" ELSE @]

\* Protocol client f emits sig: its once-listener, if any, is removed and run.
\* A client that is no board's current one and has no listener left cannot
\* reach the program any more; its further signals are not modelled.
Signal(f, sig) ==
    /\ fBoard[f] # NoBoard
    /\ CanSignal(f, sig)
    /\ firmata[fBoard[f]] = f \/ fListeners[f] # {}
    /\ sig \in fListeners[f] \/ AfterSignal(World, f, sig) # World
    /\ LET W1 == AfterSignal(World, f, sig)
           heard == sig \in fListeners[f]
           W2 == IF heard
                 THEN OnSignal([W1 EXCEPT !.fListeners[f] = @ \ {sig}], f, sig)
                 ELSE W1
       IN  Commit(W2, Op("signal", fBoard[f], f, sig, NULL,
                         IF ~heard THEN "unheard"
                         ELSE IF firmata[fBoard[f]] # f THEN "stale"
                         ELSE "current"))

\* board.disconnect()
DisconnectCall(b) ==
    /\ b \in made
    /\ Commit(Disconnect(World, b), Op("disconnect", b, NoFirmata, NULL, NULL, NULL))

\* board.releaseBoard()
ReleaseCall(b) ==
    /\ b \in made
    /\ Commit(ReleaseBoard(World, b), Op("release", b, NoFirmata, NULL, NULL, NULL))

Next ==
    \/ \E ext \in ExtIds : Acquire(ext)
    \/ \E b \in Boards : Connect(b)
    \/ \E c \in CallIds : PortResolved(c, PluggedPort)
    \/ \E c \in CallIds : PortRejected(c)
    \/ \E f \in Firmatas, sig \in Signals : Signal(f, sig)
    \/ \E b \in Boards : DisconnectCall(b)
    \/ \E b \in Boards : ReleaseCall(b)

Spec == Init /\ [][Next]_vars

\* The user answers the port prompt and the chosen port opens (autoOpen);
\* nothing makes the device finish the handshake.
Fairness ==
    /\ WF_vars(\E c \in CallIds : PortResolved(c, PluggedPort) \/ PortRejected(c))
    /\ \A f \in Firmatas : WF_vars(Signal(f, "open"))

SpecFair == Spec /\ Fairness

(* ------------------- the registry, called directly --------------------- *)

\* Boards a registry caller may hold: never opened or released ones
\* (Disconnected, the last port's descriptor kept) and Ready ones.
PluggedPorts ==
    { [usbVendorId |-> "04D8", usbProductId |-> "E83A"],
      [usbVendorId |-> "04D8", usbProductId |-> "000A"] }

\* The registry never grows beyond this length.
MaxRegistry == 3

InitRegistry ==
    /\ made = Boards
    /\ state \in [Boards -> {"disconnect", "ready"}]
    /\ portInfo \in [Boards -> PluggedPorts \cup {NoPort}]
    /\ \A b \in Boards : state[b] = "ready" => portInfo[b] # NoPort
    /\ firmata = [b \in Boards |-> IF state[b] = "ready" THEN b ELSE NoFirmata]
    /\ extensionId = [b \in Boards |-> IF state[b] = "ready" THEN Opener(b) ELSE NULL]
    /\ relListener = [b \in Boards |-> FALSE]
    /\ fBoard = [f \in Firmatas |->
                    IF f \in Boards /\ state[f] = "ready" THEN f ELSE NoBoard]
    /\ fTransport = [f \in Firmatas |-> IF fBoard[f] # NoBoard THEN "open" ELSE "none"]
    /\ fReady = [f \in Firmatas |-> fBoard[f] # NoBoard]
    /\ fListeners = [f \in Firmatas |->
                        IF fBoard[f] # NoBoard
                        THEN {"close", "disconnect", "error"} ELSE {}]
    /\ calls = [c \in CallIds |-> FreeCall]
    /\ boards = << >>
    /\ blocks = [p \in ExtIds |-> [made |-> FALSE, board |-> NoBoard]]
    /\ now = sendingInterval
    /\ pins = [f \in Firmatas |-> [pin \in Pins |-> FreshPin]]
    /\ reads = [r \in ReadIds |-> FreeRead]
    /\ writes = [w \in WriteIds |-> FreeWrite]
    /\ pinCalls = 0
    /\ seen = [b \in Boards |-> [added |-> 0, removed |-> 0, disconnected |-> 0]]
    /\ last = [op |-> "init", b |-> NoBoard, f |-> NoFirmata, sig |-> NULL,
               ext |-> NULL, res |-> NULL, opt |-> NoOptions, pin |-> 0,
               pre |-> Pre(NoBoard), ev |-> << >>, cmds |-> << >>,
               done |-> << >>]

\* The options findBoard is called with: none, or a list of filters.
FindOptions ==
    {NoOptions} \cup { [hasFilters |-> TRUE, filters |-> fs] : fs \in SUBSET Descriptors }

\* connector.findBoard(options)
FindBoardCall(options) ==
    Commit(World, [Op("find", NoBoard, NoFirmata, NULL, NULL,
                      FindBoard(World, options)) EXCEPT !.opt = options])

\* connector.addBoard(board)
AddBoardCall(b) ==
    /\ Len(boards) < MaxRegistry
    /\ Commit(AddBoard(World, b), Op("add", b, NoFirmata, NULL, NULL, NULL))

\* connector.removeBoard(board)
RemoveBoardCall(b) ==
    Commit(RemoveBoard(World, b), Op("remove", b, NoFirmata, NULL, NULL, NULL))

NextRegistry ==
    \/ \E options \in FindOptions : FindBoardCall(options)
    \/ \E b \in Boards : AddBoardCall(b)
    \/ \E b \in Boards : RemoveBoardCall(b)

SpecRegistry == InitRegistry /\ [][NextRegistry]_vars

(* ------------------------------- pin I/O ------------------------------- *)

\* this.pins[pin] can be evaluated: the protocol client is set and has
\* reported its pins (firmata.pins is empty before the handshake is over).
HasPins(W, b) == W.firmata[b] # NoFirmata /\ W.fReady[W.firmata[b]]

FreeReads(W) == { r \in ReadIds : W.reads[r].st = "free" }

FreeWrites(W) == { w \in WriteIds : W.writes[w].st = "free" }

\* firmata.pinMode(pin, mode)
PinMode(W, f, pin, mode) ==
    [Cmd(W, "pinMode", f) EXCEPT !.pins[f][pin].mode = mode]

\* firmata.reportDigitalPin(pin, on) and firmata.reportAnalogPin(analogPin, on)
Report(W, f, pin, kind, on) ==
    IF kind = "digital"
    THEN [Cmd(W, "reportDigitalPin", f) EXCEPT !.pins[f][pin].reportD = on]
    ELSE [Cmd(W, "reportAnalogPin", f) EXCEPT !.pins[f][pin].reportA = on]

\* return Promise.resolve(this.pins[pin].value)
ReadCached(W, f, pin) ==
    Settle(W, "read", "resolved", W.pins[f][pin].value, "cached", NoValue, W.now)

\* The request of a read: the once() listener on the protocol client and the
\* timer of timeoutReject, raced.
Request(W, b, f, pin, kind, wait) ==
    [W EXCEPT !.reads[MinOf(FreeReads(W))] =
        [st |-> "pending", b |-> b, f |-> f, pin |-> pin, kind |-> kind,
         at |-> W.now, due |-> W.now + wait, listening |-> TRUE,
         timer |-> TRUE, during |-> NoValue]]

\* updateDigitalInput without the test of the in-flight flag.
UpdateDigitalInputUnserialized(W, b, pin) ==
    LET f == W.firmata[b]
        P == W.pins[f][pin]
    IN  IF P.mode \notin {"undef", "INPUT", "PULLUP"}
        THEN ReadCached(W, f, pin)
        ELSE IF P.updateTime # 0 /\ W.now - P.updateTime < digitalReadInterval
        THEN ReadCached(W, f, pin)
        ELSE LET bias == IF P.inputBias # "PULLUP" THEN "INPUT" ELSE "PULLUP"
                 W1 == [W EXCEPT !.pins[f][pin].updating = TRUE,
                                 !.pins[f][pin].inputBias = bias]
             IN  Request(Report(PinMode(W1, f, pin, bias), f, pin, "digital", TRUE),
                         b, f, pin, "digital", updateDigitalInputWaitingTime)

\* updateDigitalInput that sets inputBias to INPUT without looking at it.
UpdateDigitalInputPlain(W, b, pin) ==
    LET f == W.firmata[b]
        P == W.pins[f][pin]
    IN  IF P.mode \notin {"undef", "INPUT", "PULLUP"}
        THEN ReadCached(W, f, pin)
        ELSE IF \/ P.updating
                \/ P.updateTime # 0 /\ W.now - P.updateTime < digitalReadInterval
        THEN ReadCached(W, f, pin)
        ELSE LET W1 == [W EXCEPT !.pins[f][pin].updating = TRUE,
                                 !.pins[f][pin].inputBias = "INPUT"]
             IN  Request(Report(PinMode(W1, f, pin, "INPUT"), f, pin, "digital", TRUE),
                         b, f, pin, "digital", updateDigitalInputWaitingTime)

\* ArduinoBoard.updateDigitalInput(pin), the pins being there.
UpdateDigitalInput(W, b, pin) ==
    LET f == W.firmata[b]
        P == W.pins[f][pin]
    IN  IF P.mode \notin {"undef", "INPUT", "PULLUP"}
        THEN ReadCached(W, f, pin)
        ELSE IF \/ P.updating
                \/ P.updateTime # 0 /\ W.now - P.updateTime < digitalReadInterval
        THEN ReadCached(W, f, pin)
        ELSE LET bias == IF P.inputBias # "PULLUP" THEN "INPUT" ELSE "PULLUP"
                 W1 == [W EXCEPT !.pins[f][pin].updating = TRUE,
                                 !.pins[f][pin].inputBias = bias]
             IN  Request(Report(PinMode(W1, f, pin, bias), f, pin, "digital", TRUE),
                         b, f, pin, "digital", updateDigitalInputWaitingTime)

\* ArduinoBoard.updateAnalogInput(analogPin), the pins being there.
UpdateAnalogInput(W, b, analogPin) ==
    LET f   == W.firmata[b]
        pin == AnalogPins[analogPin + 1]
        P   == W.pins[f][pin]
    IN  IF \/ P.updating
           \/ P.updateTime # 0 /\ W.now - P.updateTime < analogReadInterval
        THEN ReadCached(W, f, pin)
        ELSE LET W1 == [W EXCEPT !.pins[f][pin].updating = TRUE]
             IN  Request(Report(PinMode(W1, f, pin, "ANALOG"), f, pin, "analog", TRUE),
                         b, f, pin, "analog", updateAnalogInputWaitingTime)

\* The listener of a read without its reportDigitalPin(pin, 0): the pin goes
\* on reporting after the sample.
OnSampleKeepsReporting(W, r, v) ==
    LET R   == W.reads[r]
        cur == W.firmata[R.b]
        W0  == [W EXCEPT !.reads[r].listening = FALSE]
    IN  IF ~HasPins(W, R.b) THEN W0
        ELSE LET W1 == [W0 EXCEPT !.pins[cur][R.pin].value = v,
                                  !.pins[cur][R.pin].updateTime = W.now]
             IN  IF R.st = "pending"
                 THEN Settle([W1 EXCEPT !.reads[r].st = "settled",
                                        !.pins[cur][R.pin].updating = FALSE],
                             "read", "resolved", v, "sample", R.during, R.at)
                 ELSE W1

\* The once() listener of read r receives a sample; `this.pins` is the pin
\* table of the board's protocol client at that moment, and the .finally of
\* the read runs in the same task when the sample wins the race.
OnSample(W, r, v) ==
    LET R   == W.reads[r]
        cur == W.firmata[R.b]
        W0  == [W EXCEPT !.reads[r].listening = FALSE]
    IN  IF ~HasPins(W, R.b) THEN W0
        ELSE LET W1 == [W0 EXCEPT !.pins[cur][R.pin].value = v,
                                  !.pins[cur][R.pin].updateTime = W.now]
                 W2 == Report(W1, cur, R.pin, R.kind, FALSE)
             IN  IF R.st = "pending"
                 THEN Settle([W2 EXCEPT !.reads[r].st = "settled",
                                        !.pins[cur][R.pin].updating = FALSE],
                             "read", "resolved", v, "sample", R.during, R.at)
                 ELSE W2

RECURSIVE OnSamples(_, _, _)
\* emit(`digital-read-${pin}`, value): every listener of the event runs.
OnSamples(W, rs, v) ==
    IF rs = {} THEN [W EXCEPT !.reads = Sweep(@)]
    ELSE OnSamples(OnSample(W, MinOf(rs), v), rs \ {MinOf(rs)}, v)

\* The timer of timeoutReject fires: the race rejects unless it is settled,
\* then .catch and .finally run on the board's pin table of that moment; with
\* no pin table they throw and the read rejects with their TypeError.
OnReadTimeout(W, r) ==
    LET R   == W.reads[r]
        cur == W.firmata[R.b]
        W0  == [W EXCEPT !.reads[r].timer = FALSE]
        W1  == IF R.st # "pending" THEN W0
               ELSE IF ~HasPins(W, R.b)
               THEN Settle([W0 EXCEPT !.reads[r].st = "settled"],
                           "read", "rejected", NoValue, "TypeError", R.during, R.at)
               ELSE Settle([W0 EXCEPT !.reads[r].st = "settled",
                                      !.pins[cur][R.pin].value = 0,
                                      !.pins[cur][R.pin].updating = FALSE],
                           "read", "rejected", NoValue, "timeout", R.during, R.at)
    IN  [W1 EXCEPT !.reads = Sweep(@)]

\* A write that resolves in the call, without the pacing timer.
PacedUnpaced(W, b, name) ==
    IF W.firmata[b] = NoFirmata
    THEN Settle(W, "write", "rejected", NoValue, "TypeError", NoValue, W.now)
    ELSE Settle(Cmd(W, name, W.firmata[b]),
                "write", "resolved", NoValue, name, NoValue, W.now)

\* new Promise(resolve => { this.firmata.<name>(...);
\*                          setTimeout(() => resolve(), this.sendingInterval); })
\* The executor throws when this.firmata is null, which rejects the promise.
Paced(W, b, name) ==
    IF W.firmata[b] = NoFirmata
    THEN Settle(W, "write", "rejected", NoValue, "TypeError", NoValue, W.now)
    ELSE [Cmd(W, name, W.firmata[b]) EXCEPT
             !.writes[MinOf(FreeWrites(W))] =
                 [st |-> "waiting", op |-> name, at |-> W.now,
                  due |-> W.now + sendingInterval]]

\* ArduinoBoard.digitalWrite
DigitalWrite(W, b, pin) == Paced(W, b, "digitalWrite")

\* ArduinoBoard.pwmWrite
PwmWrite(W, b, pin) == Paced(W, b, "pwmWrite")

\* ArduinoBoard.servoWrite
ServoWrite(W, b, pin) == Paced(W, b, "servoWrite")

\* ArduinoBoard.setInputBias(pin, pullUp), the pins being there.
SetInputBias(W, b, pin, pullUp) ==
    LET f    == W.firmata[b]
        bias == IF pullUp THEN "PULLUP" ELSE "INPUT"
        W1   == [W EXCEPT !.pins[f][pin].inputBias = bias,
                          !.pins[f][pin].mode = bias]
    IN  Paced(W1, b, "pinMode")

\* The setTimeout of a write fires.
OnWriteTimer(W, w) ==
    Settle([W EXCEPT !.writes[w] = FreeWrite],
           "write", "resolved", NoValue, W.writes[w].op, NoValue, W.writes[w].at)

\* One more call of a pin operation.
Called(W) == [W EXCEPT !.pinCalls = @ + 1]

PinOp(name, b, pin, res) ==
    [Op(name, b, IF b \in Boards THEN firmata[b] ELSE NoFirmata, NULL, NULL, res)
        EXCEPT !.pin = pin]

\* The reads in flight that a call on (b, pin) found when it was answered
\* from the cache right after the call that issued them.
BackToBack(W, b, pin, name) ==
    { r \in ReadIds : /\ last.op = name /\ last.res = "issued"
                      /\ last.b = b /\ last.pin = pin
                      /\ W.reads[r].st = "pending" /\ W.reads[r].b = b
                      /\ W.reads[r].pin = pin /\ W.reads[r].at = W.now }

\* The value a call answered from the cache got is kept with the read that
\* was issued by the call before it.
NoteDuring(W, rs, v) ==
    [W EXCEPT !.reads = [r \in ReadIds |->
                            IF r \in rs THEN [W.reads[r] EXCEPT !.during = v]
                            ELSE W.reads[r]]]

ReadCall(name, b, pin, W1) ==
    IF ~HasPins(World, b)
    THEN Commit(Called(World), PinOp(name, b, pin, "threw"))
    ELSE IF W1.done # << >>
    THEN Commit(Called(NoteDuring(W1, BackToBack(W1, b, pin, name), W1.done[1].v)),
                PinOp(name, b, pin, "cached"))
    ELSE Commit(Called(W1), PinOp(name, b, pin, "issued"))

\* readDigital(pin): board.updateDigitalInput(pin)
UpdateDigitalInputCall(b, pin) ==
    /\ b \in made
    /\ pinCalls < MaxPinCalls
    /\ FreeReads(World) # {}
    /\ ReadCall("readDigital", b, pin,
                IF HasPins(World, b) THEN UpdateDigitalInput(World, b, pin) ELSE World)

\* readAnalog(analogPin): board.updateAnalogInput(analogPin)
UpdateAnalogInputCall(b, analogPin) ==
    /\ b \in made
    /\ pinCalls < MaxPinCalls
    /\ FreeReads(World) # {}
    /\ ReadCall("readAnalog", b, AnalogPins[analogPin + 1],
                IF HasPins(World, b) THEN UpdateAnalogInput(World, b, analogPin)
                ELSE World)

\* The write calls are made on a board without a protocol client or with one
\* that has reported its pins.
CanWrite(b) ==
    /\ b \in made
    /\ pinCalls < MaxPinCalls
    /\ FreeWrites(World) # {}
    /\ IF firmata[b] = NoFirmata THEN TRUE ELSE fReady[firmata[b]]

WriteCall(name, b, pin, W1) ==
    Commit(Called(W1), PinOp(name, b, pin, IF W1.done # << >> THEN W1.done[1].out
                                           ELSE "pending"))

SetInputBiasCall(b, pin, pullUp) ==
    /\ CanWrite(b)
    /\ IF ~HasPins(World, b)
       THEN Commit(Called(World), PinOp("setInputBias", b, pin, "threw"))
       ELSE Commit(Called(SetInputBias(World, b, pin, pullUp)),
                   [PinOp("setInputBias", b, pin,
                          IF SetInputBias(World, b, pin, pullUp).done # << >>
                          THEN SetInputBias(World, b, pin, pullUp).done[1].out
                          ELSE "pending")
                       EXCEPT !.sig = IF pullUp THEN "pullUp" ELSE "none"])

DigitalWriteCall(b, pin) ==
    /\ CanWrite(b)
    /\ WriteCall("digitalWrite", b, pin, DigitalWrite(World, b, pin))

PwmWriteCall(b, pin) ==
    /\ CanWrite(b)
    /\ WriteCall("pwmWrite", b, pin, PwmWrite(World, b, pin))

ServoWriteCall(b, pin) ==
    /\ CanWrite(b)
    /\ WriteCall("servoWrite", b, pin, ServoWrite(World, b, pin))

Listening(f, pin, kind) ==
    { r \in ReadIds : /\ reads[r].listening /\ reads[r].f = f
                      /\ reads[r].pin = pin /\ reads[r].kind = kind }

\* The device reports a sample of a pin whose reporting is on, and the
\* protocol client emits digital-read-<pin> or analog-read-<analogPin>.
Sample(f, pin, kind, v) ==
    /\ fTransport[f] = "open"
    /\ fReady[f]
    /\ IF kind = "digital" THEN pins[f][pin].reportD ELSE pins[f][pin].reportA
    /\ Listening(f, pin, kind) # {}
    /\ Commit(OnSamples(World, Listening(f, pin, kind), v),
              [PinOp("sample", fBoard[f], pin, v) EXCEPT !.f = f])

ReadTimeout(r) ==
    /\ reads[r].timer
    /\ now >= reads[r].due
    /\ Commit(OnReadTimeout(World, r),
              PinOp("readTimeout", reads[r].b, reads[r].pin, reads[r].st))

WriteTimer(w) ==
    /\ writes[w].st = "waiting"
    /\ now >= writes[w].due
    /\ Commit(OnWriteTimer(World, w), PinOp("writeTimer", NoBoard, 0, NULL))

\* A timer that is due fires before the clock moves on.
TimerDue ==
    \/ \E r \in ReadIds : reads[r].timer /\ reads[r].due <= now
    \/ \E w \in WriteIds : writes[w].st = "waiting" /\ writes[w].due <= now

\* The instants after now at which the program can act differently: a timer
\* is due, or a cached sample gets too old to be served.
Instants ==
    { t \in (now + 1)..MaxTime :
        \/ \E r \in ReadIds : reads[r].timer /\ reads[r].due = t
        \/ \E w \in WriteIds : writes[w].st = "waiting" /\ writes[w].due = t
        \/ \E f \in Firmatas, pin \in Pins :
              /\ pins[f][pin].updateTime # 0
              /\ t \in {pins[f][pin].updateTime + digitalReadInterval,
                         pins[f][pin].updateTime + analogReadInterval} }

\* Time passes up to the next such instant; a timer that is due fires before.
Tick ==
    /\ ~TimerDue
    /\ Instants # {}
    /\ Commit([World EXCEPT !.now = MinOf(Instants)],
              PinOp("tick", NoBoard, 0, NULL))

\* board.connectSerial() called again once the board is disconnected.
Reconnect(b) ==
    /\ state[b] = "disconnect"
    /\ Connect(b)

\* board.disconnect() called on a board that has a protocol client.
Release(b) ==
    /\ b \in made
    /\ firmata[b] # NoFirmata
    /\ DisconnectCall(b)

\* The session's board is Ready: the state of Spec after acquire, the port
\* being chosen, and the open and ready signals of its protocol client.
InitPins ==
    /\ made = {1}
    /\ state = [b \in Boards |-> IF b = 1 THEN "ready" ELSE "disconnect"]
    /\ firmata = [b \in Boards |-> IF b = 1 THEN 1 ELSE NoFirmata]
    /\ extensionId = [b \in Boards |-> IF b = 1 THEN Opener(1) ELSE NULL]
    /\ portInfo = [b \in Boards |-> IF b = 1 THEN PluggedPort ELSE NoPort]
    /\ relListener = [b \in Boards |-> b = 1]
    /\ fBoard = [f \in Firmatas |-> IF f = 1 THEN 1 ELSE NoBoard]
    /\ fTransport = [f \in Firmatas |-> IF f = 1 THEN "open" ELSE "none"]
    /\ fReady = [f \in Firmatas |-> f = 1]
    /\ fListeners = [f \in Firmatas |->
                        IF f = 1 THEN {"disconnect", "close", "error"} ELSE {}]
    /\ calls = [c \in CallIds |-> FreeCall]
    /\ boards = << 1 >>
    /\ blocks = [p \in ExtIds |-> [made |-> FALSE, board |-> NoBoard]]
    /\ now = sendingInterval
    /\ pins = [f \in Firmatas |-> [pin \in Pins |-> FreshPin]]
    /\ reads = [r \in ReadIds |-> FreeRead]
    /\ writes = [w \in WriteIds |-> FreeWrite]
    /\ pinCalls = 0
    /\ seen = [b \in Boards |-> [added |-> IF b = 1 THEN 1 ELSE 0, removed |-> 0,
                                  disconnected |-> 0]]
    /\ last = [op |-> "signal", b |-> 1, f |-> 1, sig |-> "ready", ext |-> NULL,
               res |-> "current", opt |-> NoOptions, pin |-> 0,
               pre |-> [state |-> "connect", firmata |-> 1,
                        extensionId |-> Opener(1), inReg |-> FALSE],
               ev |-> << Event(AddedEventName, 1, NULL) >>,
               cmds |-> << [c |-> "i2cConfig", f |-> 1] >>, done |-> << >>]

NextPins ==
    \/ \E b \in Boards : Release(b)
    \/ \E b \in Boards : Reconnect(b)
    \/ \E c \in CallIds : PortResolved(c, PluggedPort)
    \/ \E f \in Firmatas, sig \in {"open", "ready"} : Signal(f, sig)
    \/ \E b \in Boards, pin \in Pins : UpdateDigitalInputCall(b, pin)
    \/ \E b \in Boards, a \in 0..(Len(AnalogPins) - 1) : UpdateAnalogInputCall(b, a)
    \/ \E b \in Boards, pin \in Pins, pullUp \in BOOLEAN : SetInputBiasCall(b, pin, pullUp)
    \/ \E b \in Boards, pin \in Pins : DigitalWriteCall(b, pin)
    \/ \E b \in Boards, pin \in Pins : PwmWriteCall(b, pin)
    \/ \E b \in Boards, pin \in Pins : ServoWriteCall(b, pin)
    \/ \E f \in Firmatas, pin \in Pins, kind \in {"digital", "analog"}, v \in Samples :
          Sample(f, pin, kind, v)
    \/ \E r \in ReadIds : ReadTimeout(r)
    \/ \E w \in WriteIds : WriteTimer(w)
    \/ Tick

SpecPins == InitPins /\ [][NextPins]_vars

(* ---------------------------- ArduinoBlocks ---------------------------- *)

\* args.PIN of a block: '' (no pin assigned), a pin of the board, and a
\* number that is no pin of the board (the pin menus accept reporters).
PinArgs == {"", "14", "99"}

\* The analog pin numbers of the blocks a0, a1: the board has A0 only.
AnalogArgs == 0..1

\* parseInt(Cast.toNumber(args.PIN), 10)
ParsePin(PIN) ==
    CASE PIN = "14" -> 14
      [] PIN = "99" -> 99
      [] OTHER -> 0

\* Math.round((raw / 1023) * 1000) / 10, in tenths of a percent
Percent(raw) == (raw * 2000 + 1023) \div 2046

\* ArduinoBlocks.isConnected
BlocksIsConnected(W, p) ==
    W.blocks[p].board # NoBoard /\ IsReady(W, W.blocks[p].board)

\* What a block hands to its caller: out is "returned" for a plain value,
\* "resolved" or "rejected" for a promise that settled, "threw" for an
\* exception; v is the number (a digital level false/true is 0/1), why tells
\* the string returned or the path taken.
Answer(W, name, out, v, why) == Settle(W, name, out, v, why, NoValue, W.now)

\* The .then and .catch of getDigitalLevel and getAnalogLevel, applied to the
\* board's read promise d when it settles.
Level(kind, d) ==
    [k |-> IF kind = "digital" THEN "getDigitalLevel" ELSE "getAnalogLevel",
     out |-> "resolved",
     v |-> IF d.out # "resolved" THEN 0
           ELSE IF kind = "digital" THEN (IF d.v = 0 THEN 0 ELSE 1)
           ELSE Percent(d.v),
     why |-> d.why, during |-> NoValue, at |-> d.at]

\* Every read promise of the board that settled in the operation settles the
\* promise the block returned.
Chained(W, kind) ==
    LET ds == SelectSeq(W.done, LAMBDA d : d.k = "read")
    IN  [W EXCEPT !.done = @ \o [i \in 1..Len(ds) |-> Level(kind, ds[i])]]

\* ArduinoBlocks.getDigitalLevel
GetDigitalLevel(W, p, PIN) ==
    LET b == W.blocks[p].board
    IN  IF ~BlocksIsConnected(W, p)
        THEN Answer(W, "getDigitalLevel", "resolved", 0, "not connected")
        ELSE IF PIN = ""
        THEN Answer(W, "getDigitalLevel", "resolved", 0, "pin not assigned")
        ELSE IF ~HasPins(W, b) \/ ParsePin(PIN) \notin Pins
        THEN Answer(W, "getDigitalLevel", "threw", NoValue, "TypeError")
        ELSE Chained(UpdateDigitalInput(W, b, ParsePin(PIN)), "digital")

\* ArduinoBlocks.a0 ... a5 -> getAnalogLevel
GetAnalogLevel(W, p, analogPin) ==
    LET b == W.blocks[p].board
    IN  IF ~BlocksIsConnected(W, p)
        THEN Answer(W, "getAnalogLevel", "returned", 0, "not connected")
        ELSE IF ~HasPins(W, b) \/ analogPin + 1 \notin DOMAIN AnalogPins
        THEN Answer(W, "getAnalogLevel", "threw", NoValue, "TypeError")
        ELSE Chained(UpdateAnalogInput(W, b, analogPin), "analog")

\* The write blocks without the test of args.PIN === '': the empty argument
\* is parsed to pin 0 and written.
BlockWriteNoSentinel(W, p, PIN, name, mode, write) ==
    LET b == W.blocks[p].board
    IN  IF ~BlocksIsConnected(W, p)
        THEN Answer(W, name, "returned", NoValue, "not connected")
        ELSE IF ~HasPins(W, b)
        THEN Answer(W, name, "threw", NoValue, "TypeError")
        ELSE Paced(Cmd(W, "pinMode", W.firmata[b]), b, write)

\* The head of setDigitalLevel, setAnalogLevel, setInputBias and servoTurn,
\* then board.pinMode(pin, mode) and the write.
BlockWrite(W, p, PIN, name, mode, write) ==
    LET b == W.blocks[p].board
    IN  IF ~BlocksIsConnected(W, p)
        THEN Answer(W, name, "returned", NoValue, "not connected")
        ELSE IF PIN = ""
        THEN Answer(W, name, "resolved", NoValue, "pin not assigned")
        ELSE IF ~HasPins(W, b)
        THEN Answer(W, name, "threw", NoValue, "TypeError")
        ELSE Paced(PinMode(W, W.firmata[b], ParsePin(PIN), mode), b, write)

\* ArduinoBlocks.setDigitalLevel
SetDigitalLevel(W, p, PIN) ==
    BlockWrite(W, p, PIN, "setDigitalLevel", "OUTPUT", "digitalWrite")

\* ArduinoBlocks.setAnalogLevel
SetAnalogLevel(W, p, PIN) ==
    BlockWrite(W, p, PIN, "setAnalogLevel", "PWM", "pwmWrite")

\* ArduinoBlocks.servoTurn
ServoTurn(W, p, PIN) ==
    BlockWrite(W, p, PIN, "servoTurn", "SERVO", "servoWrite")

\* ArduinoBlocks.setInputBias
BlocksSetInputBias(W, p, PIN, pullUp) ==
    LET b == W.blocks[p].board
    IN  IF ~BlocksIsConnected(W, p)
        THEN Answer(W, "setInputBias", "returned", NoValue, "not connected")
        ELSE IF PIN = ""
        THEN Answer(W, "setInputBias", "resolved", NoValue, "pin not assigned")
        ELSE IF ~HasPins(W, b)
        THEN Answer(W, "setInputBias", "threw", NoValue, "TypeError")
        ELSE SetInputBias(W, b, ParsePin(PIN), pullUp)

\* The record of a block's call: ext is the instance, sig the PIN argument,
\* res how the call ended ("pending": the promise it returned is not settled).
BlockOp(name, p, PIN, W1) ==
    [Op(name, blocks[p].board,
        IF blocks[p].board \in Boards THEN firmata[blocks[p].board] ELSE NoFirmata,
        PIN, p,
        IF W1.done = << >> THEN "pending" ELSE W1.done[Len(W1.done)].out)
        EXCEPT !.pin = ParsePin(PIN)]

\* The instance whose blocks run; both instances hold the same board.
Callers == {"extA"}

CanBlockCall(p) ==
    /\ blocks[p].made
    /\ pinCalls < MaxPinCalls
    /\ FreeReads(World) # {}
    /\ FreeWrites(World) # {}

GetDigitalLevelCall(p, PIN) ==
    /\ CanBlockCall(p)
    /\ Commit(Called(GetDigitalLevel(World, p, PIN)),
              BlockOp("getDigitalLevel", p, PIN, GetDigitalLevel(World, p, PIN)))

GetAnalogLevelCall(p, analogPin) ==
    /\ CanBlockCall(p)
    /\ Commit(Called(GetAnalogLevel(World, p, analogPin)),
              [BlockOp("getAnalogLevel", p, NULL, GetAnalogLevel(World, p, analogPin))
                  EXCEPT !.pin = IF analogPin + 1 \in DOMAIN AnalogPins
                                 THEN AnalogPins[analogPin + 1] ELSE 0])

SetDigitalLevelCall(p, PIN) ==
    /\ CanBlockCall(p)
    /\ Commit(Called(SetDigitalLevel(World, p, PIN)),
              BlockOp("setDigitalLevel", p, PIN, SetDigitalLevel(World, p, PIN)))

SetAnalogLevelCall(p, PIN) ==
    /\ CanBlockCall(p)
    /\ Commit(Called(SetAnalogLevel(World, p, PIN)),
              BlockOp("setAnalogLevel", p, PIN, SetAnalogLevel(World, p, PIN)))

ServoTurnCall(p, PIN) ==
    /\ CanBlockCall(p)
    /\ Commit(Called(ServoTurn(World, p, PIN)),
              BlockOp("servoTurn", p, PIN, ServoTurn(World, p, PIN)))

BlocksSetInputBiasCall(p, PIN, pullUp) ==
    /\ CanBlockCall(p)
    /\ Commit(Called(BlocksSetInputBias(World, p, PIN, pullUp)),
              BlockOp("setInputBias", p, PIN, BlocksSetInputBias(World, p, PIN, pullUp)))

\* ArduinoBlocks.disconnect -> disconnectBoard
DisconnectBoard(p) ==
    /\ blocks[p].made
    /\ blocks[p].board # NoBoard
    /\ Commit(Disconnect(World, blocks[p].board),
              Op("disconnectBoard", blocks[p].board, NoFirmata, NULL, p, NULL))

\* A sample reaches the reads the blocks issued.
BlocksSample(f, pin, kind, v) ==
    /\ fTransport[f] = "open"
    /\ fReady[f]
    /\ IF kind = "digital" THEN pins[f][pin].reportD ELSE pins[f][pin].reportA
    /\ Listening(f, pin, kind) # {}
    /\ Commit(Chained(OnSamples(World, Listening(f, pin, kind), v), kind),
              [PinOp("sample", fBoard[f], pin, v) EXCEPT !.f = f])

\* The timer of a read the blocks issued fires.
BlocksReadTimeout(r) ==
    /\ reads[r].timer
    /\ now >= reads[r].due
    /\ Commit(Chained(OnReadTimeout(World, r), reads[r].kind),
              PinOp("readTimeout", reads[r].b, reads[r].pin, reads[r].st))

\* Two instances of the blocks share the Ready board: the state of Spec after
\* both were constructed, one scanned, the port was chosen and its protocol
\* client signalled open and ready.
InitBlocks ==
    /\ made = {1}
    /\ state = [b \in Boards |-> IF b = 1 THEN "ready" ELSE "disconnect"]
    /\ firmata = [b \in Boards |-> IF b = 1 THEN 1 ELSE NoFirmata]
    /\ extensionId = [b \in Boards |-> IF b = 1 THEN Opener(1) ELSE NULL]
    /\ portInfo = [b \in Boards |-> IF b = 1 THEN PluggedPort ELSE NoPort]
    /\ relListener = [b \in Boards |-> b = 1]
    /\ fBoard = [f \in Firmatas |-> IF f = 1 THEN 1 ELSE NoBoard]
    /\ fTransport = [f \in Firmatas |-> IF f = 1 THEN "open" ELSE "none"]
    /\ fReady = [f \in Firmatas |-> f = 1]
    /\ fListeners = [f \in Firmatas |->
                        IF f = 1 THEN {"disconnect", "close", "error"} ELSE {}]
    /\ calls = [c \in CallIds |-> FreeCall]
    /\ boards = << 1 >>
    /\ blocks = [p \in ExtIds |-> [made |-> TRUE, board |-> 1]]
    /\ now = sendingInterval
    /\ pins = [f \in Firmatas |-> [pin \in Pins |-> FreshPin]]
    /\ reads = [r \in ReadIds |-> FreeRead]
    /\ writes = [w \in WriteIds |-> FreeWrite]
    /\ pinCalls = 0
    /\ seen = [b \in Boards |-> [added |-> IF b = 1 THEN 1 ELSE 0, removed |-> 0,
                                  disconnected |-> 0]]
    /\ last = [op |-> "signal", b |-> 1, f |-> 1, sig |-> "ready", ext |-> NULL,
               res |-> "current", opt |-> NoOptions, pin |-> 0,
               pre |-> [state |-> "connect", firmata |-> 1,
                        extensionId |-> Opener(1), inReg |-> FALSE],
               ev |-> << Event(AddedEventName, 1, NULL),
                         Event("PERIPHERAL_CONNECTED", 1, Opener(1)) >>,
               cmds |-> << [c |-> "i2cConfig", f |-> 1] >>, done |-> << >>]

NextBlocks ==
    \/ \E p \in Callers, PIN \in PinArgs : GetDigitalLevelCall(p, PIN)
    \/ \E p \in Callers, a \in AnalogArgs : GetAnalogLevelCall(p, a)
    \/ \E p \in Callers, PIN \in PinArgs \ {"99"} : SetDigitalLevelCall(p, PIN)
    \/ \E p \in Callers, PIN \in PinArgs \ {"99"} : SetAnalogLevelCall(p, PIN)
    \/ \E p \in Callers, PIN \in PinArgs \ {"99"} : ServoTurnCall(p, PIN)
    \/ \E p \in Callers, PIN \in PinArgs \ {"99"}, pullUp \in BOOLEAN :
          BlocksSetInputBiasCall(p, PIN, pullUp)
    \/ \E p \in ExtIds : DisconnectBoard(p)
    \/ \E p \in ExtIds : Scan(p)
    \/ \E c \in CallIds : PortResolved(c, PluggedPort)
    \/ \E f \in Firmatas, sig \in {"open", "ready"} : Signal(f, sig)
    \/ \E f \in Firmatas, pin \in Pins, kind \in {"digital", "analog"}, v \in Samples :
          BlocksSample(f, pin, kind, v)
    \/ \E r \in ReadIds : BlocksReadTimeout(r)
    \/ \E w \in WriteIds : WriteTimer(w)
    \/ Tick

SpecBlocks == InitBlocks /\ [][NextBlocks]_vars

(* ------------- ArduinoBlocks instances created over time --------------- *)

\* The host constructs the instances, and calls scan() and disconnect() of
\* the constructed ones, while ports and transports answer.
NextProducers ==
    \/ \E p \in ExtIds : Construct(p)
    \/ \E p \in ExtIds : Scan(p)
    \/ \E p \in ExtIds : DisconnectBoard(p)
    \/ \E c \in CallIds : PortResolved(c, PluggedPort)
    \/ \E c \in CallIds : PortRejected(c)
    \/ \E f \in Firmatas, sig \in Signals : Signal(f, sig)

SpecProducers == Init /\ [][NextProducers]_vars

(* ------------------------------ claims --------------------------------- *)

\* The events of one kind the last operation emitted.
EventsOf(name) == SelectSeq(last.ev, LAMBDA e : e.ev = name)

\* The position of the first event of a kind in the last operation's events.
FirstIndexOf(name) == MinOf({ i \in 1..Len(last.ev) : last.ev[i].ev = name })

\* The edges of the connection state machine.
AllowedEdges ==
    { <<"disconnect", "portRequesting">>, <<"portRequesting", "connect">>,
      <<"connect", "ready">>, <<"connect", "disconnect">>,
      <<"ready", "disconnect">>, <<"portRequesting", "disconnect">> }

\* C1: under every interleaving of connect(), disconnect() and the external
\* signals, a board's state is one of the four states and changes only along
\* the edges Disconnected->Requesting, Requesting->Connected,
\* Connected->Ready, Connected/Ready->Disconnected, Requesting->Disconnected.
C1_OnlyDeclaredEdges ==
    [][\A b \in Boards :
          /\ state'[b] \in States
          /\ state'[b] # state[b] => <<state[b], state'[b]>> \in AllowedEdges]_vars

\* C2: a lifecycle signal of a protocol client that is not the board's
\* current one is discarded: state, transport handle and owner id keep their
\* values, and no released event and no lost-connection notification (no
\* event at all) is emitted.
C2_StaleSignalDiscarded ==
    (last.op = "signal" /\ last.res = "stale") =>
        /\ state[last.b] = last.pre.state
        /\ firmata[last.b] = last.pre.firmata
        /\ extensionId[last.b] = last.pre.extensionId
        /\ (last.b \in Range(boards)) = last.pre.inReg
        /\ last.ev = << >>

\* C2 witness: an error signal of a superseded client reached its listener
\* while the board was Ready on another client.
C2_Witness ==
    /\ last.op = "signal" /\ last.res = "stale" /\ last.sig = "error"
    /\ state[last.b] = "ready"
    /\ firmata[last.b] # NoFirmata

C4_AcquireShares ==
    [][(last'.op = "acquire" /\ Len(boards) > 0) =>
          /\ last'.res = boards[1]
          /\ boards' = boards
          /\ made' = made
          /\ calls' = calls
          /\ fBoard' = fBoard
          /\ fTransport' = fTransport
          /\ state' = state
          /\ firmata' = firmata]_vars

\* C4 witness: acquire("extB") resolved with the Ready board that was
\* opened for "extA", the only board of the registry.
C4_Witness ==
    /\ last.op = "acquire" /\ last.ext = "extB"
    /\ last.res # NoBoard
    /\ Opener(last.res) = "extA"
    /\ extensionId[last.res] = "extA"
    /\ state[last.res] = "ready"
    /\ boards = << last.res >>

\* C5: an error or disconnect signal of the current transport of a Ready
\* board of the registry leaves the board Disconnected and out of the
\* registry, and the host receives exactly one
\* PERIPHERAL_CONNECTION_LOST_ERROR, carrying the owner id the board was
\* opened for, before the board is released; on a Disconnected board the
\* handler does nothing.
C5_LostConnection ==
    (last.op = "signal" /\ last.sig \in {"error", "disconnect"}
        /\ last.res = "current") =>
        /\ (last.pre.state = "ready" /\ last.pre.inReg) =>
              /\ state[last.b] = "disconnect"
              /\ last.b \notin Range(boards)
              /\ Len(EventsOf("PERIPHERAL_CONNECTION_LOST_ERROR")) = 1
              /\ EventsOf("PERIPHERAL_CONNECTION_LOST_ERROR")[1].ext = Opener(last.b)
              /\ Len(EventsOf("RELEASED")) = 1
              /\ FirstIndexOf("PERIPHERAL_CONNECTION_LOST_ERROR")
                     < FirstIndexOf("RELEASED")
        /\ last.pre.state = "disconnect" =>
              /\ last.ev = << >>
              /\ state[last.b] = "disconnect"
              /\ firmata[last.b] = last.pre.firmata

\* C11: a connect call that waits for the ready signal does not wait for
\* ever: it settles, whether or not the ready signal arrives.
C11_ConnectSettles ==
    \A c \in CallIds : (calls[c].pc = "waitReady") ~> (calls[c].pc # "waitReady")

\* C12: a connect or acquire call that resolves resolves with a Ready board;
\* one that rejects leaves the board Disconnected with no protocol client and
\* no owner id; and an error of the transport before it has opened leaves no
\* call waiting on that protocol client.
C12_SettledReadyOrReleased ==
    /\ last.op = "connect" =>
          (last.res = "resolved" => state[last.b] = "ready")
    /\ last.op = "acquire" =>
          (last.res # NoBoard => state[last.res] = "ready")
    /\ last.op = "signal" /\ last.sig = "ready" /\ last.res = "current" =>
          state[last.b] = "ready"
    /\ last.op = "portRejected" =>
          /\ state[last.b] = "disconnect"
          /\ firmata[last.b] = NoFirmata
          /\ extensionId[last.b] = NULL
    /\ /\ last.op = "signal" /\ last.sig = "error" /\ last.res = "current"
       /\ last.pre.state = "portRequesting"
       => \A c \in CallIds : ~(calls[c].pc = "waitReady" /\ calls[c].f = last.f)

\* C13: connectSerial called on a board whose state is 'connect' or 'ready'
\* resolves at once with the board, issues no command, emits no event, and
\* changes neither the board, nor the pending calls, nor any protocol client
\* or its listeners.
C13_ConnectNoOp ==
    [][ \A b \in Boards :
          /\ state[b] \in {"connect", "ready"}
          /\ last'.op = "connect" /\ last'.b = b
          => /\ last'.res = "resolved"
             /\ last'.cmds = << >>
             /\ last'.ev = << >>
             /\ UNCHANGED << made, state, firmata, extensionId, portInfo,
                             relListener, fBoard, fTransport, fReady, fListeners,
                             calls, boards, blocks, pins, reads, writes >> ]_vars

\* connectSerial was called on a Ready board and resolved at once.
C13_Witness ==
    /\ last.op = "connect"
    /\ last.pre.state = "ready"
    /\ last.res = "resolved"
    /\ state[last.b] = "ready"

\* The events of one kind about board b the last operation emitted.
EventsAbout(name, b) ==
    SelectSeq(last.ev, LAMBDA e : e.ev = name /\ e.b = b)

\* C18: a board is added to the registry at most once and removed from it at
\* most once; the runtime has received one PERIPHERAL_DISCONNECTED for a
\* board that was added and is no longer in the registry, and none for any
\* other board; and the operation that emits PERIPHERAL_DISCONNECTED for a
\* board emits it once, with one RELEASED of the board, the board being in the
\* registry before the operation and not after it.
C18_RemovedOnce ==
    \A b \in Boards :
        /\ seen[b].added <= 1
        /\ seen[b].removed <= 1
        /\ seen[b].removed = seen[b].disconnected
        /\ seen[b].disconnected =
              (IF seen[b].added = 1 /\ b \notin Range(boards) THEN 1 ELSE 0)
        /\ EventsAbout("PERIPHERAL_DISCONNECTED", b) # << >> =>
              /\ Len(EventsAbout("PERIPHERAL_DISCONNECTED", b)) = 1
              /\ Len(EventsAbout("RELEASED", b)) = 1
              /\ last.b = b
              /\ last.pre.inReg
              /\ b \notin Range(boards)

\* A board that was added, removed and notified as disconnected is released
\* once more.
C18_Witness ==
    /\ last.op = "release"
    /\ ~last.pre.inReg
    /\ last.pre.state = "disconnect"
    /\ seen[last.b] = [added |-> 1, removed |-> 1, disconnected |-> 1]
    /\ Len(EventsAbout("RELEASED", last.b)) = 1

\* C19: addBoard appends the board and emits BOARD_ADDED; removeBoard of a
\* board of the registry deletes its first occurrence and emits
\* BOARD_REMOVED; removeBoard of a board that is not in the registry changes
\* nothing and emits nothing.
C19_AddRemoveEvents ==
    [][ /\ last'.op = "add" =>
              /\ boards' = Append(boards, last'.b)
              /\ last'.ev = << Event("BOARD_ADDED", last'.b, NULL) >>
        /\ last'.op = "remove" /\ last'.b \in Range(boards) =>
              /\ boards' = RemoveAt(boards, IndexOf(boards, last'.b))
              /\ last'.ev = << Event("BOARD_REMOVED", last'.b, NULL) >>
        /\ last'.op = "remove" /\ last'.b \notin Range(boards) =>
              /\ boards' = boards
              /\ last'.ev = << >> ]_vars

\* The names of the events the step emits.
EmittedNames == { last'.ev[i].ev : i \in DOMAIN last'.ev }

\* C20: when the port request of the connect that acquire started is
\* rejected, the call rejects, the registry stays as it is, neither
\* BOARD_ADDED nor BOARD_REMOVED is emitted, and the runtime receives no
\* PERIPHERAL_DISCONNECTED.
C20_FailedAcquire ==
    [][ \A c \in CallIds :
          /\ calls[c].pc = "requesting" /\ calls[c].conn
          /\ last'.op = "portRejected" /\ calls'[c].pc = "free"
          => /\ last'.res = "rejected"
             /\ last'.b = calls[c].b
             /\ boards' = boards
             /\ seen' = seen
             /\ EmittedNames \cap {"BOARD_ADDED", "BOARD_REMOVED",
                                    "PERIPHERAL_DISCONNECTED"} = {} ]_vars

\* The port request of an acquire was rejected: the board, still owned and
\* never added, is released and no call is left.
C20_Witness ==
    /\ last.op = "portRejected"
    /\ last.pre.extensionId = Opener(last.b)
    /\ last.pre.state = "portRequesting"
    /\ seen[last.b].added = 0
    /\ \A c \in CallIds : calls[c].pc = "free"
    /\ state[last.b] = "disconnect"

\* The variables of the program, without the record of the last operation.
progVars ==
    << made, state, firmata, extensionId, portInfo, relListener, fBoard,
       fTransport, fReady, fListeners, calls, boards, blocks, now, pins, reads,
       writes, pinCalls, seen >>

\* What every disconnect() on a board that is not Disconnected leaves behind:
\* state Disconnected, no protocol client, no owner, one RELEASED emitted.
Released(b) ==
    /\ state'[b] = "disconnect"
    /\ firmata'[b] = NoFirmata
    /\ extensionId'[b] = NULL
    /\ Len(SelectSeq(last'.ev, LAMBDA e : e.ev = "RELEASED" /\ e.b = b)) = 1

\* C21 as stated: disconnect() on a Disconnected board changes nothing and
\* emits nothing; on a board in any other state it sends the reset
\* notification first and then releases: the state is Disconnected, the
\* protocol client and the owner id are cleared and one RELEASED was emitted.
C21_DisconnectSendsReset ==
    [][ last'.op = "disconnect" =>
          IF state[last'.b] = "disconnect"
          THEN /\ UNCHANGED progVars
               /\ last'.ev = << >> /\ last'.cmds = << >>
          ELSE /\ last'.cmds # << >>
               /\ last'.cmds[1].c = "reset"
               /\ Released(last'.b) ]_vars

\* C21 as the code has it: disconnect() on a Disconnected board changes
\* nothing and emits nothing; on a board in any other state it sends the
\* reset notification to the board's protocol client when the board has one,
\* and none otherwise, before anything else, and then releases: the state is
\* Disconnected, the protocol client and the owner id are cleared and one
\* RELEASED was emitted, whether the transport was open or not.
C21_DisconnectReleases ==
    [][ last'.op = "disconnect" =>
          IF state[last'.b] = "disconnect"
          THEN /\ UNCHANGED progVars
               /\ last'.ev = << >> /\ last'.cmds = << >>
          ELSE /\ IF firmata[last'.b] # NoFirmata
                  THEN /\ last'.cmds # << >>
                       /\ last'.cmds[1] = [c |-> "reset", f |-> firmata[last'.b]]
                       /\ \A i \in 2..Len(last'.cmds) : last'.cmds[i].c # "reset"
                  ELSE last'.cmds = << >>
               /\ Released(last'.b) ]_vars

\* disconnect() was called on a board whose port had not opened yet, so that
\* the reset could not be delivered; the board is released all the same.
C21_Witness ==
    /\ last.op = "disconnect"
    /\ last.pre.state = "portRequesting"
    /\ last.pre.firmata # NoFirmata
    /\ fTransport[last.pre.firmata] = "opening"
    /\ last.cmds = << [c |-> "reset", f |-> last.pre.firmata] >>
    /\ state[last.b] = "disconnect"
    /\ firmata[last.b] = NoFirmata
    /\ EventsAbout("RELEASED", last.b) # << >>

\* The blocks that take a pin argument.
PinBlocks ==
    {"getDigitalLevel", "setDigitalLevel", "setAnalogLevel", "servoTurn", "setInputBias"}

\* The neutral result of block `name`: false from the digital read; from the
\* writes the text 'not connected' when the instance has no Ready board and
\* 'pin not assigned' otherwise.
Neutral(name, d, connected) ==
    /\ d.k = name
    /\ d.out \in {"returned", "resolved"}
    /\ IF name = "getDigitalLevel" THEN d.v = 0
       ELSE d.why = (IF connected THEN "pin not assigned" ELSE "not connected")

\* C22: a digital read, digital write, PWM write, servo write or set input
\* bias block called with the empty pin argument, or by an instance that has
\* no Ready board, hands back its neutral result, issues no protocol command,
\* emits nothing and changes nothing of the boards, the pins, the registry
\* and the pending reads and writes.
C22_NeutralResult ==
    [][ /\ last'.op \in PinBlocks
        /\ last'.sig = "" \/ ~BlocksIsConnected(World, last'.ext)
        => /\ last'.cmds = << >>
           /\ last'.ev = << >>
           /\ Len(last'.done) = 1
           /\ Neutral(last'.op, last'.done[1], BlocksIsConnected(World, last'.ext))
           /\ UNCHANGED << made, state, firmata, extensionId, portInfo, relListener,
                           fBoard, fTransport, fReady, fListeners, calls, boards,
                           blocks, now, pins, reads, writes, seen >> ]_vars

\* The set input bias block was called with the empty pin argument on a Ready
\* board while a read of pin 14 was in flight: the read and the pin are as
\* they were.
C22_Witness ==
    /\ last.op = "setInputBias"
    /\ last.sig = ""
    /\ last.pre.state = "ready"
    /\ last.done[1].why = "pin not assigned"
    /\ \E r \in ReadIds : reads[r].st = "pending"
    /\ pins[last.pre.firmata][14].updating

\* C23: what a digital or analog read block called on a Ready board hands to
\* its caller is never an exception and never a rejected promise, and when
\* the read of the board failed (timeout, error in the read's handlers, board
\* released, pin number that is no pin of the board) it is the safe default,
\* false or 0.
C23_ReadFailuresDegrade ==
    \A i \in DOMAIN last.done :
        last.done[i].k \in {"getDigitalLevel", "getAnalogLevel"} =>
            /\ last.done[i].out \in {"resolved", "returned"}
            /\ last.done[i].why \in {"timeout", "TypeError"} => last.done[i].v = 0

\* C24: the promise that digitalWrite, pwmWrite or servoWrite returns never
\* fails, also when the call into the protocol client inside it throws: it
\* is pending after the call and resolved in the end, never rejected.
C24_WritesNeverFail ==
    /\ last.op \in {"digitalWrite", "pwmWrite", "servoWrite"} =>
          last.res \notin {"rejected", "threw"}
    /\ \A i \in DOMAIN last.done :
          last.done[i].k = "write" => last.done[i].out # "rejected"

\* C29: every board the registry holds is Connected or Ready and is held
\* once; and the board acquire() finds in the registry is Connected or Ready,
\* so that a released board is never handed out.
C29_RegistryHoldsLiveBoards ==
    /\ \A i \in 1..Len(boards) :
          /\ state[boards[i]] \in {"connect", "ready"}
          /\ Occurs(boards, boards[i]) = 1
    /\ last.op = "acquire" =>
          \/ last.res = NoBoard
          \/ /\ last.res \in Range(boards)
             /\ state[last.res] \in {"connect", "ready"}

\* Board 1 was released and left the registry, board 2 was opened, and an
\* acquire() found board 2, which is Ready.
C29_Witness ==
    /\ last.op = "acquire"
    /\ last.res = 2
    /\ boards = << 2 >>
    /\ state[2] = "ready"
    /\ state[1] = "disconnect"
    /\ seen[1].removed = 1

\* C30: a board whose state is Connected or Ready has its protocol client,
\* and a board whose state is Disconnected has none.
C30_HandleMatchesState ==
    \A b \in Boards :
        /\ state[b] \in {"connect", "ready"} => firmata[b] # NoFirmata
        /\ state[b] = "disconnect" => firmata[b] = NoFirmata

\* The last step was a close signal of the board's current protocol client,
\* heard while the board was Connected or Ready.
ClosedByTransport ==
    /\ last.op = "signal" /\ last.sig = "close" /\ last.res = "current"
    /\ last.pre.state \in {"connect", "ready"}

\* What the close listener leaves of the board: state Disconnected, no
\* protocol client, no owner, out of the registry, one RELEASED emitted and
\* no lost-connection notification.
ReleasedQuietly ==
    /\ state[last.b] = "disconnect"
    /\ firmata[last.b] = NoFirmata
    /\ extensionId[last.b] = NULL
    /\ last.b \notin Range(boards)
    /\ Len(EventsOf("RELEASED")) = 1
    /\ Len(EventsOf("PERIPHERAL_CONNECTION_LOST_ERROR")) = 0

\* A close signal that found the board Disconnected changed nothing of it
\* and emitted nothing.
CloseIgnored ==
    (last.op = "signal" /\ last.sig = "close" /\ last.pre.state = "disconnect") =>
        /\ state[last.b] = "disconnect"
        /\ firmata[last.b] = last.pre.firmata
        /\ extensionId[last.b] = last.pre.extensionId
        /\ (last.b \in Range(boards)) = last.pre.inReg
        /\ last.ev = << >>
        /\ last.cmds = << >>

\* C33 (as claimed): a close signal from the current transport of a
\* Connected or Ready board releases the board, removes it from the registry
\* and tells the host one PERIPHERAL_DISCONNECTED, without a lost-connection
\* notification; a close signal on a Disconnected board has no effect.
C33_CloseReleases ==
    /\ ClosedByTransport =>
          /\ ReleasedQuietly
          /\ Len(EventsOf("PERIPHERAL_DISCONNECTED")) = 1
    /\ CloseIgnored

\* C33 (amended): a close signal from the current transport of a Connected
\* or Ready board releases the board without a lost-connection notification;
\* the host is told one PERIPHERAL_DISCONNECTED when the board was in the
\* registry and nothing when it was not (a board still in its handshake, or
\* one connected without the connector). A close signal on a Disconnected
\* board has no effect.
C33_CloseReleasesRegistered ==
    /\ ClosedByTransport =>
          /\ ReleasedQuietly
          /\ Len(EventsOf("PERIPHERAL_DISCONNECTED")) =
                 IF last.pre.inReg THEN 1 ELSE 0
    /\ CloseIgnored

\* C33 witness: the transport of a Ready board of the registry closed; the
\* board was released and the host was told PERIPHERAL_DISCONNECTED.
C33_Witness ==
    /\ ClosedByTransport
    /\ last.pre.state = "ready"
    /\ last.pre.inReg
    /\ state[last.b] = "disconnect"
    /\ Len(EventsOf("PERIPHERAL_DISCONNECTED")) = 1

\* The scans that completed successfully in the last step: connectBoard's
\* .then tells the host PERIPHERAL_CONNECTED in the name of the instance.
ScansCompleted == EventsOf("PERIPHERAL_CONNECTED")

\* C32: when a scan() of a command producer has completed successfully and
\* the board it resolved to is Ready, the producer's isConnected() is true,
\* for the producer that opened the board and for a producer that was
\* created later and got the registered board.
C32_ScannedIsConnected ==
    \A i \in 1..Len(ScansCompleted) :
        state[ScansCompleted[i].b] = "ready" =>
            BlocksIsConnected(World, ScansCompleted[i].ext)

\* The acquire() and scan() calls whose promise has not settled.
PendingAcquires == { c \in CallIds : calls[c].pc # "free" /\ calls[c].conn }

\* The transports opened for pending acquires and not closed.
AcquireTransports ==
    { f \in Firmatas :
        /\ fTransport[f] \in {"opening", "open"}
        /\ \E c \in PendingAcquires : calls[c].f = f }

\* C31: acquires that overlap on an empty registry share one connection. At
\* most one transport is opened for the pending acquires, and the registry
\* never holds more than one board.
C31_OverlappingAcquiresShare ==
    /\ Cardinality(AcquireTransports) <= 1
    /\ Len(boards) <= 1

\* The transports opened for board b and not closed.
OpenTransports(b) ==
    { f \in Firmatas : fBoard[f] = b /\ fTransport[f] = "open" }

\* C14: at any time a board has at most one transport that was opened and
\* is not yet closed.
C14_OneOpenTransport ==
    \A b \in Boards : Cardinality(OpenTransports(b)) <= 1

\* The reads of pin `pin` of protocol client f whose promise is not settled.
Outstanding(f, pin) ==
    { r \in ReadIds : reads[r].st = "pending" /\ reads[r].f = f /\ reads[r].pin = pin }

\* C6: reads of one pin are serialized. At any time at most one sample
\* request is outstanding per pin, and a readDigital/readAnalog call that is
\* answered from the cache issues no protocol command.
C6_ReadsSerialized ==
    /\ \A f \in Firmatas, pin \in Pins : Cardinality(Outstanding(f, pin)) <= 1
    /\ last.op \in {"readDigital", "readAnalog"} /\ last.res = "cached" =>
          last.cmds = << >>

\* C15: the updating flag of a pin of the board's pin table is true while a
\* read of the pin is issued and not settled, and false when no such read is
\* left.
C15_UpdatingSpansRead ==
    \A b \in Boards, pin \in Pins :
        firmata[b] # NoFirmata =>
            (pins[firmata[b]][pin].updating <=> Outstanding(firmata[b], pin) # {})

\* C16: when the timer of a read fires, or a sample reaches the listener of
\* a read, and the read was issued on a protocol client that is not the
\* board's current one, the pins of the current one stay as they are.
C16_StaleCallbacksInert ==
    [][ \A r \in ReadIds :
          /\ reads[r].st # "free"
          /\ firmata[reads[r].b] # NoFirmata
          /\ reads[r].f # firmata[reads[r].b]
          /\ \/ reads[r].timer /\ ~reads'[r].timer
             \/ last'.op = "sample" /\ reads[r].listening /\ ~reads'[r].listening
          => pins'[firmata[reads[r].b]] = pins[firmata[reads[r].b]] ]_vars

\* The reads whose listener runs in the step.
Heard == { r \in ReadIds : reads[r].listening /\ ~reads'[r].listening }

\* C17: the loser of the race between sample and timeout has no effect. A
\* sample that reaches only listeners of reads the timeout has settled
\* changes no pin and issues no protocol command, and the timer of a read the
\* sample has settled changes no pin.
C17_LoserHasNoEffect ==
    [][ /\ /\ last'.op = "sample"
           /\ Heard # {}
           /\ \A r \in Heard : reads[r].st = "settled"
           => pins' = pins /\ last'.cmds = << >>
        /\ \A r \in ReadIds :
              reads[r].timer /\ ~reads'[r].timer /\ reads[r].st = "settled"
              => pins' = pins ]_vars

\* The sample requests among the protocol commands of the step.
Requests ==
    SelectSeq(last'.cmds, LAMBDA c : c.c \in {"reportDigitalPin", "reportAnalogPin"})

\* The read the step calls is answered from the cache: the promise resolves
\* in the call with the pin's value and no protocol command is issued.
FromCache(f, pin) ==
    /\ last'.res = "cached"
    /\ last'.cmds = << >>
    /\ Len(last'.done) = 1
    /\ last'.done[1].out = "resolved"
    /\ last'.done[1].v = pins[f][pin].value

\* The read the step calls issues one sample request and sets updating.
Requested(f, pin) ==
    /\ last'.res = "issued"
    /\ last'.done = << >>
    /\ Len(Requests) = 1
    /\ pins'[f][pin].updating

\* C25: readDigital(pin) is answered from the cache, with no protocol
\* command, exactly when the pin's mode is set and is neither INPUT nor
\* PULLUP, or a read of the pin is in flight, or the cached sample is younger
\* than digitalReadInterval; readAnalog likewise, with analogReadInterval and
\* without the mode condition; in every other case one sample request is
\* issued and updating becomes true.
C25_CachedExactlyWhen ==
    [][ /\ last'.op \in {"readDigital", "readAnalog"}
        /\ last'.res # "threw"
        => LET f == firmata[last'.b]
               pin == last'.pin
               P == pins[f][pin]
               wait == IF last'.op = "readDigital" THEN digitalReadInterval
                       ELSE analogReadInterval
           IN  IF \/ last'.op = "readDigital" /\ P.mode \notin {"undef", "INPUT", "PULLUP"}
                  \/ Outstanding(f, pin) # {}
                  \/ P.updateTime # 0 /\ now - P.updateTime < wait
               THEN FromCache(f, pin)
               ELSE Requested(f, pin) ]_vars

\* Reporting of the pin is on for the kind of read: digital or analog.
Reporting(P, kind) == IF kind = "digital" THEN P.reportD ELSE P.reportA

\* The command that switches reporting for the kind of read.
ReportCommand(kind) ==
    IF kind = "digital" THEN "reportDigitalPin" ELSE "reportAnalogPin"

\* C26: a read that issues a request sets updating, then sets the pin mode,
\* then enables reporting, in this order and with nothing else, and is
\* pending; when the sample arrives before the timeout the value and the
\* time are stored, reporting is disabled and nothing else is commanded, and
\* the call resolves with the sample; after that step reporting of the pin is
\* off and updating is false.
C26_ReadSequence ==
    [][ /\ /\ last'.op \in {"readDigital", "readAnalog"}
           /\ last'.res = "issued"
           => LET f == firmata[last'.b]
                  kind == IF last'.op = "readDigital" THEN "digital" ELSE "analog"
              IN  /\ last'.cmds = << [c |-> "pinMode", f |-> f],
                                     [c |-> ReportCommand(kind), f |-> f] >>
                  /\ last'.done = << >>
                  /\ pins'[f][last'.pin].updating
                  /\ pins'[f][last'.pin].mode \in {"INPUT", "PULLUP", "ANALOG"}
                  /\ Reporting(pins'[f][last'.pin], kind)
        /\ \A r \in ReadIds :
              /\ last'.op = "sample"
              /\ r \in Heard
              /\ reads[r].st = "pending"
              => LET P == pins'[reads[r].f][reads[r].pin]
                 IN  /\ P.value = last'.res
                     /\ P.updateTime = now
                     /\ ~Reporting(P, reads[r].kind)
                     /\ ~P.updating
                     /\ last'.cmds # << >>
                     /\ \A i \in DOMAIN last'.cmds :
                           last'.cmds[i] = [c |-> ReportCommand(reads[r].kind),
                                            f |-> reads[r].f]
                     /\ \E i \in DOMAIN last'.done :
                           /\ last'.done[i].k = "read"
                           /\ last'.done[i].out = "resolved"
                           /\ last'.done[i].v = last'.res
                           /\ last'.done[i].at = reads[r].at ]_vars

\* A digital read issued at an earlier time was resolved by the sample 1: the
\* value is stored and reporting of the pin is off.
C26_Witness ==
    /\ last.op = "sample"
    /\ last.res = 1
    /\ Len(last.done) = 1
    /\ last.done[1].out = "resolved"
    /\ last.done[1].at < now
    /\ last.cmds = << [c |-> "reportDigitalPin", f |-> last.f] >>
    /\ pins[last.f][last.pin].value = 1
    /\ pins[last.f][last.pin].updateTime = now
    /\ ~pins[last.f][last.pin].reportD

NeverRead(f, pin) ==
    /\ pins[f][pin].updateTime = 0
    /\ ~pins[f][pin].updating
    /\ ~pins[f][pin].reportD /\ ~pins[f][pin].reportA

\* A read of the pin was in flight on an earlier protocol client of board b
\* when the board was released: the flag of that client's pin is still set.
Interrupted(b, pin) ==
    \E g \in Firmatas :
        /\ g # firmata[b]
        /\ fBoard[g] = b
        /\ pins[g][pin].updating

C7_BackToBackSameValue ==
    \A i \in DOMAIN last.done :
        /\ last.done[i].k = "read"
        /\ last.done[i].out = "resolved"
        /\ last.done[i].during # NoValue
        => last.done[i].v = last.done[i].during

\* C7 as the code has it: of two readDigital calls on a pin made one right
\* after the other, the second issues no protocol command and resolves at
\* once with the value that is cached for the pin, which is also the value of
\* the first call when the first call was answered from the cache.
C7_SecondCallServedFromCache ==
    [][ /\ last.op = "readDigital" /\ last.res # "threw"
        /\ last'.op = "readDigital" /\ last'.b = last.b /\ last'.pin = last.pin
        /\ pinCalls' = pinCalls + 1
        => /\ last'.res = "cached"
           /\ last'.cmds = << >>
           /\ Len(last'.done) = 1
           /\ last'.done[1].out = "resolved"
           /\ last'.done[1].v = pins[firmata[last.b]][last.pin].value
           /\ last.res = "cached" => last'.done[1].v = last.done[1].v ]_vars

\* A readDigital call was answered from the cache right after the call that
\* issued the sample request, which is still in flight.
C7_Witness ==
    /\ last.op = "readDigital"
    /\ last.res = "cached"
    /\ \E r \in ReadIds : reads[r].st = "pending" /\ reads[r].during # NoValue

\* C8: when the timeout of a read fires and no sample has settled the read,
\* the read rejects with the timeout, and right after it the pin's cached
\* value is 0 and its updating flag is false.
C8_ReadTimeout ==
    last.op = "readTimeout" /\ last.res = "pending" =>
        /\ Len(last.done) = 1
        /\ last.done[1].k = "read"
        /\ last.done[1].out = "rejected"
        /\ last.done[1].why = "timeout"
        /\ firmata[last.b] # NoFirmata
        /\ pins[firmata[last.b]][last.pin].value = 0
        /\ ~pins[firmata[last.b]][last.pin].updating

\* The protocol command of a write operation.
CommandOf(op) == IF op = "setInputBias" THEN "pinMode" ELSE op

\* C9: digitalWrite, pwmWrite, servoWrite and setInputBias called on a Ready
\* board issue their protocol command exactly once and leave the returned
\* promise pending on a timer of sendingInterval; a write's promise resolves
\* in no other step than the firing of its timer, sendingInterval or more
\* after the call.
C9_WritesPaced ==
    /\ /\ last.op \in {"digitalWrite", "pwmWrite", "servoWrite", "setInputBias"}
       /\ last.pre.state = "ready"
       => /\ last.res = "pending"
          /\ last.done = << >>
          /\ Len(last.cmds) = 1
          /\ last.cmds[1] = [c |-> CommandOf(last.op), f |-> last.pre.firmata]
          /\ \E w \in WriteIds : writes[w] = [st |-> "waiting", op |-> CommandOf(last.op),
                                              at |-> now, due |-> now + sendingInterval]
    /\ \A i \in DOMAIN last.done :
          last.done[i].k = "write" /\ last.done[i].out = "resolved" =>
              /\ last.op = "writeTimer"
              /\ last.cmds = << >>
              /\ now >= last.done[i].at + sendingInterval

\* The pacing timer of a digitalWrite made on the Ready board has fired and
\* resolved the write.
C9_Witness ==
    /\ last.op = "writeTimer"
    /\ Len(last.done) = 1
    /\ last.done[1].why = "digitalWrite"
    /\ last.done[1].out = "resolved"
    /\ state[1] = "ready"
    /\ pins[1][14].updateTime = 0

\* Board i of the registry is connected and its port's vendor/product id
\* pair is the pair of some entry of the filter the last find() was given.
Acceptable(i) ==
    /\ state[boards[i]] \in {"connect", "ready"}
    /\ << portInfo[boards[i]].usbVendorId, portInfo[boards[i]].usbProductId >>
           \in { << flt.usbVendorId, flt.usbProductId >> : flt \in last.opt.filters }

\* C10: find(filter) returns none on an empty registry; without a filter the
\* first-inserted board; with a filter the first board in insertion order
\* that is connected and whose vendor/product id pair equals a filter
\* entry's, and none when no board is.
C10_Find ==
    last.op = "find" =>
        /\ Len(boards) = 0 => last.res = NoBoard
        /\ (Len(boards) > 0 /\ ~last.opt.hasFilters) => last.res = boards[1]
        /\ (Len(boards) > 0 /\ last.opt.hasFilters) =>
              IF \E i \in 1..Len(boards) : Acceptable(i)
              THEN \E i \in 1..Len(boards) :
                      /\ Acceptable(i)
                      /\ \A j \in 1..(i - 1) : ~Acceptable(j)
                      /\ last.res = boards[i]
              ELSE last.res = NoBoard

\* C10 witness: a filtered find() skipped a first board that matches the
\* filter but is Disconnected, and returned the second board.
C10_Witness ==
    /\ last.op = "find" /\ last.opt.hasFilters
    /\ Len(boards) >= 2
    /\ boards[1] # boards[2]
    /\ state[boards[1]] = "disconnect"
    /\ portInfo[boards[1]] \in last.opt.filters
    /\ last.res = boards[2]

====
